---- MODULE Spec2Model ----
(***************************************************************************)
(* State-machine model of welcome_wizard/views.py: the wizard list views   *)
(* with check_sync, the bulk import views (get / post) and the dashboard   *)
(* reconciliation WelcomeWizardDashboard.check_data.                       *)
(*                                                                         *)
(* Four specifications share the variables:                                *)
(*   Spec         the bulk import views, one request at a time             *)
(*   SpecSync     the wizard list views and check_sync                     *)
(*   SpecDash     the dashboard, one request at a time                     *)
(*   SpecRace     two dashboard requests interleaved at the granularity of *)
(*                their ORM calls                                          *)
(***************************************************************************)
EXTENDS Integers, Sequences, FiniteSets, TLC

VARIABLES
    inventory,      \* nautobot model name -> number of records of that model
    merlin,         \* the Merlin table: sequence of rows in insertion order
    uniqueName,     \* whether the Merlin table enforces uniqueness of name
    dash,           \* the last operation of the dashboard component, and whether
                    \* check_data has run (ran) and ran twice in a row (repeat)
    pc,             \* SpecRace: request -> position inside check_data
    idx,            \* SpecRace: request -> index of the descriptor being processed
    completedOf,    \* SpecRace: request -> the local variable `completed`
    importTable,    \* import model -> set of pks present in that table
    enqueued,       \* the JobResult.enqueue_job calls of the request last served
    response,       \* the last request of the import / list views and its response
    syncEnabled,    \* PLUGINS_CONFIG["welcome_wizard"]["enable_devicetype-library"]
    gitRepos,       \* the GitRepository table: sequence of rows
    pendingSyncs    \* pull-and-refresh jobs enqueued and not yet run

vars == <<inventory, merlin, uniqueName, dash, pc, idx, completedOf,
          importTable, enqueued, response, syncEnabled, gitRepos, pendingSyncs>>

dashVars == <<inventory, merlin, uniqueName, dash>>
raceVars == <<pc, idx, completedOf>>
wizardVars == <<importTable, enqueued, response, syncEnabled, gitRepos, pendingSyncs>>

(***************************************************************************)
(* Bounds                                                                  *)
(***************************************************************************)
MaxRecords == 1     \* inventory records in existence at once
MaxIgnored == 1     \* Merlin rows a user has flagged ignored at once
MaxPk == 2          \* primary keys an import table draws from: 1..MaxPk
MaxSelected == 2    \* values of the pk parameter in one request
MaxSyncs == 2       \* pull-and-refresh jobs waiting at once

None == "None"

(***************************************************************************)
(* Dashboard: WelcomeWizardDashboard.check_data                            *)
(***************************************************************************)

\* The fixed list check_data iterates over.
Descriptors ==
    << [model |-> "Location", name |-> "Locations",
        list_url |-> "dcim:location_list", new_url |-> "dcim:location_add",
        wizard_url |-> ""],
       [model |-> "Manufacturer", name |-> "Manufacturers",
        list_url |-> "dcim:manufacturer_list", new_url |-> "dcim:manufacturer_add",
        wizard_url |-> "plugins:welcome_wizard:manufacturer_import"],
       [model |-> "DeviceType", name |-> "Device Types",
        list_url |-> "dcim:devicetype_list", new_url |-> "dcim:devicetype_add",
        wizard_url |-> "plugins:welcome_wizard:devicetype_import"],
       [model |-> "CircuitType", name |-> "Circuit Types",
        list_url |-> "circuits:circuittype_list", new_url |-> "circuits:circuittype_add",
        wizard_url |-> ""],
       [model |-> "Provider", name |-> "Circuit Providers",
        list_url |-> "circuits:provider_list", new_url |-> "circuits:provider_add",
        wizard_url |-> ""],
       [model |-> "RIR", name |-> "RIRs",
        list_url |-> "ipam:rir_list", new_url |-> "ipam:rir_add",
        wizard_url |-> ""],
       [model |-> "ClusterType", name |-> "VM Cluster Types",
        list_url |-> "virtualization:clustertype_list",
        new_url |-> "virtualization:clustertype_add",
        wizard_url |-> ""] >>

NautobotModels == {Descriptors[i].model : i \in 1..Len(Descriptors)}

CategoryNames == {Descriptors[i].name : i \in 1..Len(Descriptors)}

RECURSIVE TotalFrom(_, _)
TotalFrom(inv, i) ==
    IF i > Len(Descriptors) THEN 0
    ELSE inv[Descriptors[i].model] + TotalFrom(inv, i + 1)

\* Number of inventory records over all tracked models.
TotalRecords(inv) == TotalFrom(inv, 1)

\* nautobot_object.objects.exists()
ObjectsExist(inv, model) == inv[model] > 0

\* Merlin.objects.filter(name=var_name): the rows with that name, in table order.
FilterByName(rows, var_name) == SelectSeq(rows, LAMBDA r : r.name = var_name)

\* Mutant: the update is skipped, so a stored row keeps its old completed.
UpdateCompleted_Skipped(rows, var_name, completed) == rows

\* Mutant: the update rewrites ignored along with completed.
UpdateCompleted_ResetsIgnored(rows, var_name, completed) ==
    [i \in 1..Len(rows) |->
        IF rows[i].name = var_name
        THEN [rows[i] EXCEPT !.completed = completed, !.ignored = FALSE]
        ELSE rows[i]]

\* Merlin.objects.filter(name=var_name).update(completed=completed)
UpdateCompleted(rows, var_name, completed) ==
    [i \in 1..Len(rows) |->
        IF rows[i].name = var_name
        THEN [rows[i] EXCEPT !.completed = completed]
        ELSE rows[i]]

\* Mutant: the lookup never finds the stored row.
GetByName_NeverFinds(rows, var_name) == [error |-> "DoesNotExist", row |-> None]

\* Merlin.objects.get(name=var_name): the row, or the exception it raises.
GetByName(rows, var_name) ==
    LET found == FilterByName(rows, var_name)
    IN  CASE Len(found) = 0 -> [error |-> "DoesNotExist", row |-> None]
          [] Len(found) = 1 -> [error |-> None, row |-> found[1]]
          [] OTHER -> [error |-> "MultipleObjectsReturned", row |-> None]

\* The row Merlin.objects.create(...) is called with for descriptor d.
NewRow(d, completed) ==
    [name |-> d.name, completed |-> completed, ignored |-> FALSE,
     nautobot_model |-> d.model, nautobot_add_link |-> d.new_url,
     merlin_link |-> d.wizard_url, nautobot_list_link |-> d.list_url]

\* The insert of row breaks the unique key on name, when the table has one.
\* The Merlin model is declared outside views.py: uniqueName leaves open
\* whether its name column is unique.
ViolatesUniqueName(rows, unique, row) ==
    unique /\ Len(FilterByName(rows, row.name)) > 0

\* Merlin.objects.create(...): appends the row, unless the table rejects it.
CreateRow(rows, unique, row) ==
    IF ViolatesUniqueName(rows, unique, row)
    THEN [error |-> "IntegrityError", rows |-> rows]
    ELSE [error |-> None, rows |-> Append(rows, row)]

\* One iteration of the loop of check_data, for descriptor d.
CheckOne(d, rows, unique, inv) ==
    LET completed == ObjectsExist(inv, d.model)
        updated == UpdateCompleted(rows, d.name, completed)
        got == GetByName(updated, d.name)
    IN  CASE got.error = "MultipleObjectsReturned" ->
                [error |-> got.error, rows |-> updated]
          [] got.error = "DoesNotExist" ->
                CreateRow(updated, unique, NewRow(d, completed))
          [] OTHER -> [error |-> None, rows |-> updated]

RECURSIVE CheckDataFrom(_, _, _, _)
CheckDataFrom(i, rows, unique, inv) ==
    IF i > Len(Descriptors) THEN [error |-> None, rows |-> rows]
    ELSE LET one == CheckOne(Descriptors[i], rows, unique, inv)
         IN  IF one.error # None THEN one
             ELSE CheckDataFrom(i + 1, one.rows, unique, inv)

\* check_data(): the whole loop; an uncaught exception ends it where it is raised.
check_data(rows, unique, inv) == CheckDataFrom(1, rows, unique, inv)

NumIgnored(rows) == Cardinality({i \in 1..Len(rows) : rows[i].ignored})

\* WelcomeWizardDashboard.get: runs check_data, then renders the table.
DashboardGet ==
    /\ LET res == check_data(merlin, uniqueName, inventory)
       IN  /\ merlin' = res.rows
           /\ dash' = [op |-> "check_data", error |-> res.error, ran |-> TRUE,
                       repeat |-> (dash.op = "check_data")]
    /\ UNCHANGED <<inventory, uniqueName>>
    /\ UNCHANGED raceVars
    /\ UNCHANGED wizardVars

\* A record of a tracked nautobot model is added (by any other view or job).
AddRecord(model) ==
    /\ TotalRecords(inventory) < MaxRecords
    /\ inventory' = [inventory EXCEPT ![model] = @ + 1]
    /\ dash' = [op |-> "inventory", error |-> None, ran |-> dash.ran,
                repeat |-> FALSE]
    /\ UNCHANGED <<merlin, uniqueName>>
    /\ UNCHANGED raceVars
    /\ UNCHANGED wizardVars

\* A record of a tracked nautobot model is deleted.
RemoveRecord(model) ==
    /\ inventory[model] > 0
    /\ inventory' = [inventory EXCEPT ![model] = @ - 1]
    /\ dash' = [op |-> "inventory", error |-> None, ran |-> dash.ran,
                repeat |-> FALSE]
    /\ UNCHANGED <<merlin, uniqueName>>
    /\ UNCHANGED raceVars
    /\ UNCHANGED wizardVars

\* A user sets or clears the ignored flag of the Merlin rows named var_name.
SetIgnored(var_name, flag) ==
    /\ Len(FilterByName(merlin, var_name)) > 0
    /\ LET edited == [i \in 1..Len(merlin) |->
                        IF merlin[i].name = var_name
                        THEN [merlin[i] EXCEPT !.ignored = flag]
                        ELSE merlin[i]]
       IN  /\ NumIgnored(edited) <= MaxIgnored
           /\ edited # merlin
           /\ merlin' = edited
    /\ dash' = [op |-> "ignore", error |-> None, ran |-> dash.ran,
                repeat |-> FALSE]
    /\ UNCHANGED <<inventory, uniqueName>>
    /\ UNCHANGED raceVars
    /\ UNCHANGED wizardVars

WizardIdle ==
    /\ importTable = [m \in {"ManufacturerImport", "DeviceTypeImport"} |-> {}]
    /\ enqueued = <<>>
    /\ response = [op |-> "none", serial |-> 0]
    /\ syncEnabled = FALSE
    /\ gitRepos = <<>>
    /\ pendingSyncs = 0

RaceIdle ==
    /\ pc = << >>
    /\ idx = << >>
    /\ completedOf = << >>

DashInit ==
    /\ inventory = [m \in NautobotModels |-> 0]
    /\ merlin = <<>>
    /\ uniqueName \in BOOLEAN
    /\ dash = [op |-> "none", error |-> None, ran |-> FALSE, repeat |-> FALSE]
    /\ RaceIdle
    /\ WizardIdle

DashNext ==
    \/ DashboardGet
    \/ \E m \in NautobotModels : AddRecord(m)
    \/ \E m \in NautobotModels : RemoveRecord(m)
    \/ \E n \in CategoryNames, f \in BOOLEAN : SetIgnored(n, f)

SpecDash == DashInit /\ [][DashNext]_vars

(***************************************************************************)
(* Dashboard: two requests interleaved at the granularity of the ORM calls *)
(***************************************************************************)

Requests == {"r1", "r2"}

Exceptions == {"MultipleObjectsReturned", "IntegrityError"}

\* The position after the iteration for descriptor i has finished.
AfterIteration(r) ==
    IF idx[r] < Len(Descriptors)
    THEN /\ idx' = [idx EXCEPT ![r] = @ + 1]
         /\ pc' = [pc EXCEPT ![r] = "exists"]
    ELSE /\ idx' = idx
         /\ pc' = [pc EXCEPT ![r] = "done"]

\* WelcomeWizardDashboard.get calls check_data: the loop starts.
RaceBegin(r) ==
    /\ pc[r] = "idle"
    /\ pc' = [pc EXCEPT ![r] = "exists"]
    /\ UNCHANGED <<idx, completedOf>>
    /\ UNCHANGED dashVars
    /\ UNCHANGED wizardVars

\* completed = nautobot_object.objects.exists()
RaceExists(r) ==
    /\ pc[r] = "exists"
    /\ completedOf' = [completedOf EXCEPT
                         ![r] = ObjectsExist(inventory, Descriptors[idx[r]].model)]
    /\ pc' = [pc EXCEPT ![r] = "update"]
    /\ UNCHANGED idx
    /\ UNCHANGED dashVars
    /\ UNCHANGED wizardVars

\* Merlin.objects.filter(name=var_name).update(completed=completed)
RaceUpdate(r) ==
    /\ pc[r] = "update"
    /\ merlin' = UpdateCompleted(merlin, Descriptors[idx[r]].name, completedOf[r])
    /\ pc' = [pc EXCEPT ![r] = "get"]
    /\ UNCHANGED <<idx, completedOf, inventory, uniqueName, dash>>
    /\ UNCHANGED wizardVars

\* merlin_id = Merlin.objects.get(name=var_name), except DoesNotExist: None
RaceGet(r) ==
    /\ pc[r] = "get"
    /\ LET got == GetByName(merlin, Descriptors[idx[r]].name)
       IN  CASE got.error = "MultipleObjectsReturned" ->
                    /\ pc' = [pc EXCEPT ![r] = got.error]
                    /\ idx' = idx
             [] got.error = "DoesNotExist" ->
                    /\ pc' = [pc EXCEPT ![r] = "create"]
                    /\ idx' = idx
             [] OTHER -> AfterIteration(r)
    /\ UNCHANGED completedOf
    /\ UNCHANGED dashVars
    /\ UNCHANGED wizardVars

\* if merlin_id is None: Merlin.objects.create(...)
RaceCreate(r) ==
    /\ pc[r] = "create"
    /\ LET res == CreateRow(merlin, uniqueName,
                            NewRow(Descriptors[idx[r]], completedOf[r]))
       IN  IF res.error # None
           THEN /\ pc' = [pc EXCEPT ![r] = res.error]
                /\ idx' = idx
                /\ merlin' = merlin
           ELSE /\ merlin' = res.rows
                /\ AfterIteration(r)
    /\ UNCHANGED <<completedOf, inventory, uniqueName, dash>>
    /\ UNCHANGED wizardVars

\* The two requests arrive with the inventory in any state within the bound.
RaceInit ==
    /\ inventory \in {inv \in [NautobotModels -> 0..MaxRecords] :
                          TotalRecords(inv) <= MaxRecords}
    /\ merlin = <<>>
    /\ uniqueName \in BOOLEAN
    /\ dash = [op |-> "none", error |-> None, ran |-> FALSE, repeat |-> FALSE]
    /\ pc = [r \in Requests |-> "idle"]
    /\ idx = [r \in Requests |-> 1]
    /\ completedOf = [r \in Requests |-> FALSE]
    /\ WizardIdle

RaceNext ==
    \/ \E r \in Requests : RaceBegin(r)
    \/ \E r \in Requests : RaceExists(r)
    \/ \E r \in Requests : RaceUpdate(r)
    \/ \E r \in Requests : RaceGet(r)
    \/ \E r \in Requests : RaceCreate(r)

SpecRace == RaceInit /\ [][RaceNext]_vars

(***************************************************************************)
(* Bulk import views: BulkImportView.get and BulkImportView.post           *)
(***************************************************************************)

ImportModels == {"ManufacturerImport", "DeviceTypeImport"}

\* Primary keys, as the strings a request carries them in.
Pks == {ToString(i) : i \in 1..MaxPk}

BulkImportViews == {"ManufacturerBulkImportView", "DeviceTypeBulkImportView"}

\* The class attributes of the two subclasses of BulkImportView;
\* permission_required is also what get_required_permission() returns: the
\* add permission of the model of the queryset attribute.
ViewAttrs(view) ==
    IF view = "ManufacturerBulkImportView"
    THEN [model |-> "ManufacturerImport",
          return_url |-> "plugins:welcome_wizard:manufacturers",
          permission_required |-> "dcim.add_manufacturer"]
    ELSE [model |-> "DeviceTypeImport",
          return_url |-> "plugins:welcome_wizard:devicetypes",
          permission_required |-> "dcim.add_devicetype"]

\* The permissions of the users who send requests: each user may add objects
\* of one of the two target models.
UserPerms == {{"dcim.add_manufacturer"}, {"dcim.add_devicetype"}}

\* The stored record of import model `model` with primary key pk. Its name and
\* its filename are distinct values, and differ from record to record.
ImportRecord(model, pk) ==
    [pk |-> pk, name |-> <<model, "name", pk>>, filename |-> <<model, "file", pk>>]

\* Mutant: the first of the values given for the key is returned.
QueryDictGet_First(values) ==
    IF Len(values) = 0 THEN None ELSE values[1]

\* QueryDict.get(key) and QueryDict[key] on the values given for the key: the
\* last of them, None when the key is absent.
QueryDictGet(values) ==
    IF Len(values) = 0 THEN None ELSE values[Len(values)]

\* Mutant: only an absent parameter counts as no selection.
IsFalsy_OnlyNone(value) == value = None

\* Python truth value of request.GET.get("pk"): None and "" are false.
IsFalsy(value) == value = None \/ value = ""

\* The values a request can carry for the pk parameter of the query string.
PkParams ==
    UNION {[1..n -> Pks \cup {""}] : n \in 0..MaxSelected}

\* The values request.POST.getlist("pk") can return.
PkLists ==
    UNION {[1..n -> Pks] : n \in 0..MaxSelected}

\* BulkImportView.get
BulkImportGet(view, pkValues) ==
    /\ LET attrs == ViewAttrs(view)
           primarykey == QueryDictGet(pkValues)
       IN  response' =
             IF IsFalsy(primarykey)
             THEN [op |-> "get", view |-> view,
                   pk |-> pkValues, status |-> "redirect",
                   location |-> attrs.return_url,
                   lookup |-> None, obj |-> None, form |-> None]
             ELSE IF primarykey \notin importTable[attrs.model]
             THEN [op |-> "get", view |-> view,
                   pk |-> pkValues, status |-> "DoesNotExist",
                   location |-> None,
                   lookup |-> primarykey, obj |-> None, form |-> None]
             ELSE [op |-> "get", view |-> view,
                   pk |-> pkValues, status |-> "render",
                   location |-> None,
                   lookup |-> primarykey,
                   obj |-> ImportRecord(attrs.model, primarykey),
                   form |-> <<primarykey>>]
    /\ enqueued' = <<>>
    /\ UNCHANGED <<importTable, syncEnabled, gitRepos, pendingSyncs>>
    /\ UNCHANGED dashVars
    /\ UNCHANGED raceVars

\* Mutant: the permission check always passes.
has_permission_Always(view, perms) == TRUE

\* self.has_permission(): the user holds the view's permission_required.
has_permission(view, perms) == ViewAttrs(view).permission_required \in perms

\* self.model.objects.filter(pk__in=pk_list): the pks of the stored records
\* among those listed.
FilterPkIn(table, pk_list) ==
    {p \in table : \E i \in 1..Len(pk_list) : pk_list[i] = p}

\* The orders in which a queryset without a stated ordering can yield its rows.
Orderings(S) ==
    {q \in [1..Cardinality(S) -> S] :
        \A i, j \in 1..Cardinality(S) : i # j => q[i] # q[j]}

\* Mutant: the device type job is given the record's name as its filename.
JobFor_NameAsFilename(model, obj) ==
    IF model = "ManufacturerImport"
    THEN [name |-> "Welcome Wizard - Import Manufacturer",
          kwargs |-> [manufacturer_name |-> obj.name]]
    ELSE [name |-> "Welcome Wizard - Import Device Type",
          kwargs |-> [filename |-> obj.name]]

\* The job enqueued for record obj of import model `model`.
JobFor(model, obj) ==
    IF model = "ManufacturerImport"
    THEN [name |-> "Welcome Wizard - Import Manufacturer",
          kwargs |-> [manufacturer_name |-> obj.name]]
    ELSE [name |-> "Welcome Wizard - Import Device Type",
          kwargs |-> [filename |-> obj.filename]]

\* Mutant: no message when nothing was onboarded.
OnboardedMessages_OnlyWhenSome(onboarded) ==
    IF Len(onboarded) = 0 THEN <<>>
    ELSE << [level |-> "success",
             text |-> <<"Onboarded", Len(onboarded), "objects.">>] >>

\* messages.success(request, f"Onboarded {len(onboarded)} objects."): the
\* messages the request emits.
OnboardedMessages(onboarded) ==
    << [level |-> "success",
        text |-> <<"Onboarded", Len(onboarded), "objects.">>] >>

\* form.is_valid(): the submitted data has the shape the form expects.
is_valid(data) == data.wellFormed

\* BulkImportView.post
BulkImportPost(view, perms, data) ==
    LET attrs == ViewAttrs(view)
        matched == FilterPkIn(importTable[attrs.model], data.pk)
    IN  IF ~has_permission(view, perms)
        THEN /\ response' = [op |-> "post", view |-> view,
                             perms |-> perms, data |-> data,
                             status |-> "forbidden", location |-> None,
                             messages |-> <<>>]
             /\ enqueued' = <<>>
        ELSE IF is_valid(data)
        THEN \E order \in Orderings(matched) :
               LET onboarded ==
                     [i \in 1..Len(order) |-> ImportRecord(attrs.model, order[i])]
               IN  /\ enqueued' = [i \in 1..Len(onboarded) |->
                                      JobFor(attrs.model, onboarded[i])]
                   /\ response' = [op |-> "post",
                                   view |-> view, perms |-> perms, data |-> data,
                                   status |-> "redirect",
                                   location |-> attrs.return_url,
                                   messages |-> OnboardedMessages(onboarded)]
        ELSE /\ response' = [op |-> "post", view |-> view,
                             perms |-> perms, data |-> data,
                             status |-> "redirect", location |-> attrs.return_url,
                             messages |-> <<>>]
             /\ enqueued' = <<>>

\* BulkImportView.post, with the variables it leaves alone.
Post(view, perms, data) ==
    /\ BulkImportPost(view, perms, data)
    /\ UNCHANGED <<importTable, syncEnabled, gitRepos, pendingSyncs>>
    /\ UNCHANGED dashVars
    /\ UNCHANGED raceVars

\* The device type library is refreshed: each import table holds one record
\* per pk the repository holds.
LibraryRefresh(pks) ==
    /\ importTable' = [m \in ImportModels |-> pks]
    /\ importTable' # importTable
    /\ UNCHANGED <<enqueued, response, syncEnabled, gitRepos, pendingSyncs>>
    /\ UNCHANGED dashVars
    /\ UNCHANGED raceVars

DashIdle ==
    /\ inventory = [m \in NautobotModels |-> 0]
    /\ merlin = <<>>
    /\ uniqueName = TRUE
    /\ dash = [op |-> "none", error |-> None, ran |-> FALSE, repeat |-> FALSE]

Init ==
    /\ DashIdle
    /\ RaceIdle
    /\ WizardIdle

Next ==
    \/ \E v \in BulkImportViews, q \in PkParams : BulkImportGet(v, q)
    \/ \E v \in BulkImportViews, perms \in UserPerms,
          pk_list \in PkLists, wf \in BOOLEAN :
            Post(v, perms, [pk |-> pk_list, wellFormed |-> wf])
    \/ \E pks \in SUBSET Pks : LibraryRefresh(pks)

Spec == Init /\ [][Next]_vars

(***************************************************************************)
(* Wizard list views and check_sync                                        *)
(***************************************************************************)

ListViews == {"ManufacturerListView", "DeviceTypeListView"}

\* The model of the queryset attribute of a list view.
QuerysetModel(view) ==
    IF view = "ManufacturerListView" THEN "ManufacturerImport" ELSE "DeviceTypeImport"

\* The GitRepository check_sync creates.
DevicetypeLibrary ==
    [name |-> "Devicetype-library", slug |-> "devicetype_library",
     remote_url |-> "https://github.com/netbox-community/devicetype-library.git",
     provided_contents |-> <<"welcome_wizard.import_wizard">>,
     branch |-> "master"]

\* GitRepository.objects.filter(slug=slug)
ReposWithSlug(repos, slug) == SelectSeq(repos, LAMBDA r : r.slug = slug)

\* Mutant: the sync no longer depends on the table being empty.
ShouldSync_IgnoresTable(enabled, table) == enabled

\* The condition of check_sync: the feature is enabled and the queryset is empty.
ShouldSync(enabled, table) == enabled /\ table = {}

\* The GitRepository table after the try / except of check_sync: the repository
\* is created when none has the slug.
GetOrCreateRepo(repos) ==
    IF Len(ReposWithSlug(repos, "devicetype_library")) = 0
    THEN Append(repos, DevicetypeLibrary)
    ELSE repos

\* check_sync(instance, request)
check_sync(view) ==
    IF ShouldSync(syncEnabled, importTable[QuerysetModel(view)])
    THEN /\ pendingSyncs < MaxSyncs
         /\ gitRepos' = GetOrCreateRepo(gitRepos)
         /\ pendingSyncs' = pendingSyncs + 1
    ELSE /\ gitRepos' = gitRepos
         /\ pendingSyncs' = pendingSyncs

\* ManufacturerListView.get / DeviceTypeListView.get: check_sync, then the
\* table is rendered.
ListGet(view) ==
    /\ check_sync(view)
    /\ response' = [op |-> "list", serial |-> 1 - response.serial, view |-> view,
                    status |-> "render",
                    rows |-> importTable[QuerysetModel(view)]]
    /\ UNCHANGED <<importTable, enqueued, syncEnabled>>
    /\ UNCHANGED dashVars
    /\ UNCHANGED raceVars

\* The job runner runs one pull-and-refresh job: the import tables hold one
\* record per pk the repository holds.
PullAndRefresh(pks) ==
    /\ pendingSyncs > 0
    /\ Len(ReposWithSlug(gitRepos, "devicetype_library")) > 0
    /\ pendingSyncs' = pendingSyncs - 1
    /\ importTable' = [m \in ImportModels |-> pks]
    /\ UNCHANGED <<enqueued, response, syncEnabled, gitRepos>>
    /\ UNCHANGED dashVars
    /\ UNCHANGED raceVars

\* The records of the import tables are deleted (the user has imported them
\* or an administrator has cleared the tables).
ClearImports ==
    /\ importTable # [m \in ImportModels |-> {}]
    /\ importTable' = [m \in ImportModels |-> {}]
    /\ UNCHANGED <<enqueued, response, syncEnabled, gitRepos, pendingSyncs>>
    /\ UNCHANGED dashVars
    /\ UNCHANGED raceVars

SyncInit ==
    /\ DashIdle
    /\ RaceIdle
    /\ importTable = [m \in ImportModels |-> {}]
    /\ enqueued = <<>>
    /\ response = [op |-> "none", serial |-> 0]
    /\ syncEnabled \in BOOLEAN
    /\ gitRepos = <<>>
    /\ pendingSyncs = 0

SyncNext ==
    \/ \E v \in ListViews : ListGet(v)
    \/ \E pks \in SUBSET Pks : PullAndRefresh(pks)
    \/ ClearImports

SpecSync == SyncInit /\ [][SyncNext]_vars

(***************************************************************************)
(* Wizard claims                                                           *)
(***************************************************************************)

\* A step that serves a request to BulkImportView.post.
PostStep == response'.op = "post" /\ <<response, enqueued>>' # <<response, enqueued>>

\* A step that serves a request to BulkImportView.get.
GetStep == response'.op = "get" /\ <<response, enqueued>>' # <<response, enqueued>>

\* The user of the request answered by resp holds the add permission of the
\* target model of the view.
Permitted(resp) ==
    \/ resp.view = "ManufacturerBulkImportView" /\ "dcim.add_manufacturer" \in resp.perms
    \/ resp.view = "DeviceTypeBulkImportView" /\ "dcim.add_devicetype" \in resp.perms

\* The stored records the identifiers of the request answered by resp match.
MatchedPks(resp) ==
    LET model == IF resp.view = "ManufacturerBulkImportView"
                 THEN "ManufacturerImport" ELSE "DeviceTypeImport"
    IN  {resp.data.pk[i] : i \in 1..Len(resp.data.pk)} \cap importTable[model]

\* C3: a post by a user without the add permission of the target model returns
\* Forbidden, enqueues no job, emits no message and redirects nowhere, whether
\* the form data is valid or not.
C3_ForbiddenWithoutPermission ==
    [][(PostStep /\ ~Permitted(response')) =>
          /\ response'.status = "forbidden"
          /\ enqueued' = <<>>
          /\ response'.messages = <<>>
          /\ response'.location = None
      ]_vars

C3_Witness ==
    /\ response.op = "post"
    /\ ~Permitted(response)
    /\ response.status = "forbidden"
    /\ response.data.wellFormed
    /\ MatchedPks(response) # {}

\* C4: a valid post by a permitted user enqueues exactly one job per matched
\* record and none for an unmatched identifier: "Import Manufacturer" with
\* manufacturer_name the record's name for the manufacturer view, "Import Device
\* Type" with filename the record's filename for the device type view.
C4_OneJobPerMatchedRecord ==
    [][(PostStep /\ Permitted(response') /\ response'.data.wellFormed) =>
          LET matched == MatchedPks(response')
          IN  /\ Len(enqueued') = Cardinality(matched)
              /\ \A p \in matched :
                    Cardinality({i \in 1..Len(enqueued') :
                        enqueued'[i] =
                          IF response'.view = "ManufacturerBulkImportView"
                          THEN [name |-> "Welcome Wizard - Import Manufacturer",
                                kwargs |-> [manufacturer_name |->
                                              <<"ManufacturerImport", "name", p>>]]
                          ELSE [name |-> "Welcome Wizard - Import Device Type",
                                kwargs |-> [filename |->
                                              <<"DeviceTypeImport", "file", p>>]]
                      }) = 1
      ]_vars

C4_Witness ==
    /\ response.op = "post"
    /\ Permitted(response)
    /\ response.data.wellFormed
    /\ response.view = "DeviceTypeBulkImportView"
    /\ Len(enqueued) = 2
    /\ Len(response.data.pk) = 2

\* C5: a valid post by a permitted user whose identifier list is empty or matches
\* no record enqueues no job and redirects to the return url with the message
\* "Onboarded 0 objects.".
C5_ZeroMatchedStillReports ==
    [][(PostStep /\ Permitted(response') /\ response'.data.wellFormed
          /\ MatchedPks(response') = {}) =>
          /\ enqueued' = <<>>
          /\ response'.status = "redirect"
          /\ response'.location =
                (IF response'.view = "ManufacturerBulkImportView"
                 THEN "plugins:welcome_wizard:manufacturers"
                 ELSE "plugins:welcome_wizard:devicetypes")
          /\ response'.messages =
                << [level |-> "success", text |-> <<"Onboarded", 0, "objects.">>] >>
      ]_vars

C5_Witness ==
    /\ response.op = "post"
    /\ Permitted(response)
    /\ response.data.wellFormed
    /\ Len(response.data.pk) > 0
    /\ response.messages =
          << [level |-> "success", text |-> <<"Onboarded", 0, "objects.">>] >>
    /\ importTable["ManufacturerImport"] # {}

\* C6: a get whose pk parameter is missing or empty redirects to the return url
\* of the view: no record is looked up, no form is rendered, no job is enqueued.
C6_NoSelectionRedirects ==
    [][(GetStep /\ \A i \in 1..Len(response'.pk) : response'.pk[i] = "") =>
          /\ response'.status = "redirect"
          /\ response'.location =
                (IF response'.view = "ManufacturerBulkImportView"
                 THEN "plugins:welcome_wizard:manufacturers"
                 ELSE "plugins:welcome_wizard:devicetypes")
          /\ response'.lookup = None
          /\ response'.obj = None
          /\ response'.form = None
          /\ enqueued' = <<>>
      ]_vars

C6_Witness ==
    /\ response.op = "get"
    /\ response.pk = <<"">>
    /\ response.status = "redirect"
    /\ importTable["ManufacturerImport"] # {}

\* The request answered by resp carries at least one pk, none of them empty.
SelectsIdentifiers(resp) ==
    /\ Len(resp.pk) > 0
    /\ \A i \in 1..Len(resp.pk) : resp.pk[i] # ""

\* The answer of get when it looks up identifier p and shows the identifiers
\* shown in the form: the page when p is stored, DoesNotExist when it is not.
AnswersWith(resp, table, p, shown) ==
    LET model == IF resp.view = "ManufacturerBulkImportView"
                 THEN "ManufacturerImport" ELSE "DeviceTypeImport"
    IN  /\ resp.lookup = p
        /\ IF p \in table[model]
           THEN /\ resp.status = "render"
                /\ resp.obj.pk = p
                /\ resp.form = shown
           ELSE /\ resp.status = "DoesNotExist"
                /\ resp.obj = None
                /\ resp.form = None

\* C7 as claimed: a get with a non-empty list of identifiers looks up the first
\* of them and renders the form with the full list (NotFound and no form when
\* the identifier looked up matches no record).
C7_FirstIdentifierFullList ==
    [][(GetStep /\ SelectsIdentifiers(response')) =>
          AnswersWith(response', importTable, response'.pk[1], response'.pk)
      ]_vars

\* C7 amended: a get with a non-empty list of identifiers looks up the last of
\* them and renders the form with that one identifier alone (NotFound and no
\* form when the identifier looked up matches no record).
C7_LastIdentifierOnly ==
    [][(GetStep /\ SelectsIdentifiers(response')) =>
          AnswersWith(response', importTable, response'.pk[Len(response'.pk)],
                      <<response'.pk[Len(response'.pk)]>>)
      ]_vars

C7_Witness ==
    /\ response.op = "get"
    /\ Len(response.pk) = 2
    /\ response.pk[1] # response.pk[2]
    /\ response.pk[1] # ""
    /\ response.status = "render"
    /\ response.obj.pk = response.pk[2]
    /\ importTable["ManufacturerImport"] = {response.pk[1], response.pk[2]}

\* A step that serves a request to one of the wizard list views.
ListStep == response'.op = "list" /\ response'.serial # response.serial

\* C9: a render of a wizard list view enqueues exactly one pull-and-refresh job
\* when the feature is enabled and the table of the view is empty, and none
\* otherwise; nothing keeps a further render of the still empty table from
\* enqueuing another; and at most one GitRepository with slug devicetype_library
\* is ever created.
C9_SyncOncePerEmptyRender ==
    [][/\ ListStep =>
            pendingSyncs' = pendingSyncs +
                (IF syncEnabled /\ importTable[
                        IF response'.view = "ManufacturerListView"
                        THEN "ManufacturerImport" ELSE "DeviceTypeImport"] = {}
                 THEN 1 ELSE 0)
       /\ Cardinality({i \in 1..Len(gitRepos') :
                          gitRepos'[i].slug = "devicetype_library"}) <= 1
      ]_vars

C9_Witness ==
    /\ response.op = "list"
    /\ pendingSyncs = 2
    /\ Len(gitRepos) = 1
    /\ importTable["ManufacturerImport"] = {}

(***************************************************************************)
(* Dashboard claims                                                        *)
(***************************************************************************)

RowsNamed(n) == Len(FilterByName(merlin, n))

ExactlyOnePerCategory ==
    /\ Len(merlin) = Len(Descriptors)
    /\ \A n \in CategoryNames : RowsNamed(n) = 1

CompletedIsFresh ==
    \A i \in 1..Len(Descriptors) :
        \A j \in 1..Len(merlin) :
            merlin[j].name = Descriptors[i].name
                => merlin[j].completed = ObjectsExist(inventory, Descriptors[i].model)

\* C1: once check_data has run, however its runs are interleaved with additions
\* and removals of inventory records, exactly one Merlin row exists for each of
\* the seven category names; and right after a run every row's completed equals
\* the existence check of its category.
C1_OneEntryPerCategory ==
    /\ dash.ran => ExactlyOnePerCategory
    /\ dash.op = "check_data" => ExactlyOnePerCategory /\ CompletedIsFresh

C1_Witness ==
    /\ dash.op = "check_data"
    /\ \E j \in 1..Len(merlin) : merlin[j].completed
    /\ \E j \in 1..Len(merlin) : ~merlin[j].completed

\* C2: a run of check_data that directly follows another run, with no change in
\* between, leaves the Merlin table exactly as it was: no row is created and no
\* field of any row (ignored and the three links included) changes.
C2_SecondRunIdempotent ==
    [][(dash.op = "check_data" /\ dash'.op = "check_data") => merlin' = merlin]_vars

C2_Witness ==
    /\ dash.repeat
    /\ ExactlyOnePerCategory
    /\ NumIgnored(merlin) > 0
    /\ \E j \in 1..Len(merlin) : merlin[j].completed

\* C8: a run of check_data deletes no row and changes nothing but completed on
\* the rows that exist: every row stored before the run is stored after it with
\* the same name, ignored flag, model and links.
C8_OnlyCompletedChanges ==
    [][dash'.op = "check_data" =>
          /\ Len(merlin') >= Len(merlin)
          /\ \A j \in 1..Len(merlin) :
                merlin'[j] = [merlin[j] EXCEPT !.completed = merlin'[j].completed]
      ]_vars

C8_Witness ==
    /\ dash.op = "check_data"
    /\ dash.repeat = FALSE
    /\ \E j \in 1..Len(merlin) : merlin[j].ignored /\ merlin[j].completed

\* C10: when two check_data invocations interleave at the granularity of their
\* ORM calls, no two Merlin rows carry the same name and neither invocation
\* raises an exception.
C10_NoDuplicateNoError ==
    /\ \A n \in CategoryNames : RowsNamed(n) <= 1
    /\ \A r \in Requests : pc[r] \notin Exceptions

====
